---- MODULE Spec2Model ----
(***************************************************************************)
(* Model of the repository-detail modal of the portfolio frontend:         *)
(*   - renderMarkdown (components/RepoModal.tsx), the chain of five        *)
(*     String.prototype.replace calls that turns a README summary into an  *)
(*     HTML fragment;                                                      *)
(*   - RepoModal, which shows either that fragment or a fallback notice;   *)
(*   - ReposGrid, which owns the active repository shown by the modal.     *)
(*                                                                         *)
(* A string is a sequence of one-character strings.  The regular           *)
(* expressions are modelled by what a backtracking matcher does with       *)
(* them: greedy quantifiers take the longest run first and give back one   *)
(* character at a time, lazy ones take the shortest run first.             *)
(***************************************************************************)
EXTENDS Naturals, Sequences, FiniteSets

\* ------------------------------------------------------------------------
\* Bounds of the checked input families.
\* ------------------------------------------------------------------------
MaxLen == 4
MaxTextLen == 2
MaxItems == 2
MaxStarLen == 7

\* ------------------------------------------------------------------------
\* Characters and character classes.
\* ------------------------------------------------------------------------
\* \s : the white-space class (a blank stands for every white space that is
\* no line terminator, "\n" for every white space that is one).
IsWs(c) == c \in {" ", "\n"}

\* The line terminators: what `.` refuses, and what ^ and $ look for under
\* the m flag.
IsLT(c) == c = "\n"

\* The backtick U+0060, which the module language cannot write inside a
\* string literal.
Tick == "tick"

\* The character at position i, or "" outside the string.
At(s, i) == IF i \in 1..Len(s) THEN s[i] ELSE ""

\* The literal lit stands at position i of s.
HasAt(s, i, lit) ==
  /\ i >= 1
  /\ i + Len(lit) - 1 <= Len(s)
  /\ SubSeq(s, i, i + Len(lit) - 1) = lit

\* s[i .. j-1]
Slice(s, i, j) == SubSeq(s, i, j - 1)

\* The least and the greatest element of a non-empty set of positions: where
\* a scan to the right, or to the left, stops first.
Least(S) == CHOOSE k \in S : \A j \in S : k <= j
Greatest(S) == CHOOSE k \in S : \A j \in S : k >= j

\* Greedy \s* from position i: the position after the longest run of white
\* space.
SkipWs(s, i) ==
  IF i > Len(s) THEN i
  ELSE Least({k \in i..(Len(s) + 1) : k > Len(s) \/ ~IsWs(s[k])})

\* Greedy .* from position i: the position after the longest run of
\* characters that are no line terminator (where $ holds under the m flag).
LineEnd(s, i) ==
  IF i > Len(s) THEN i
  ELSE Least({k \in i..(Len(s) + 1) : k > Len(s) \/ IsLT(s[k])})

\* ^ under the m flag: the start of the input or just after a line terminator.
LineStart(s, i) == i = 1 \/ IsLT(At(s, i - 1))

\* The first position >= i where lit stands, 0 when there is none
\* ([\s\S]*? followed by a literal).
FindFrom(s, i, lit) ==
  LET hits == {k \in i..Len(s) : HasAt(s, k, lit)} IN
  IF hits = {} THEN 0 ELSE Least(hits)

\* Lazy .+? followed by the literal lit, the first character of the run
\* already taken: the closing literal is tried at j before the run takes
\* s[j], and the run never takes a line terminator.  0 when there is no match.
LazyClose(s, j, lit) ==
  IF j > Len(s) THEN 0
  ELSE LET k == Least({n \in j..(Len(s) + 1) :
                         n > Len(s) \/ HasAt(s, n, lit) \/ IsLT(s[n])})
       IN IF HasAt(s, k, lit) THEN k ELSE 0

\* ------------------------------------------------------------------------
\* Tags written by the renderer.
\* ------------------------------------------------------------------------
LiOpen == <<"<", "l", "i", ">">>
LiClose == <<"<", "/", "l", "i", ">">>
UlOpen == <<"<", "u", "l", ">">>
UlClose == <<"<", "/", "u", "l", ">">>
StrongOpen == <<"<", "s", "t", "r", "o", "n", "g", ">">>
StrongClose == <<"<", "/", "s", "t", "r", "o", "n", "g", ">">>
EmOpen == <<"<", "e", "m", ">">>
EmClose == <<"<", "/", "e", "m", ">">>
CodeOpen == <<"<", "c", "o", "d", "e", ">">>
CodeClose == <<"<", "/", "c", "o", "d", "e", ">">>

\* ------------------------------------------------------------------------
\* The five regular expressions.  A match at position i is a record:
\*   e      the position after the match (0: no match at i),
\*   c1,c2  the capture group $1 is s[c1 .. c2-1],
\*   d      the positions of the marker characters the match consumes.
\* ------------------------------------------------------------------------
NoMatch == [e |-> 0, c1 |-> 0, c2 |-> 0, d |-> {}]

\* \s+(.+)$ after a bullet marker at lo-1, the greedy \s+ having run up to c:
\* \s+ gives back one character at a time until (.+) finds a character that
\* is no line terminator.  The start of the capture, 0 when there is none.
BulletText(s, lo, c) ==
  LET starts == {k \in (lo + 1)..c : k <= Len(s) /\ ~IsLT(s[k])} IN
  IF starts = {} THEN 0 ELSE Greatest(starts)

\* Faulty variant: the bullet expression without its ^ anchor.
BulletMatchUnanchored(s, i) ==
  LET q == SkipWs(s, i) IN
  IF At(s, q) \notin {"*", "-"} THEN NoMatch
  ELSE LET c == BulletText(s, q + 1, SkipWs(s, q + 1)) IN
    IF c = 0 THEN NoMatch
    ELSE [e |-> LineEnd(s, c), c1 |-> c, c2 |-> LineEnd(s, c), d |-> {q}]

\* /^\s*[\*-]\s+(.+)$/m at position i.
BulletMatch(s, i) ==
  IF ~LineStart(s, i) THEN NoMatch
  ELSE LET q == SkipWs(s, i) IN
    IF At(s, q) \notin {"*", "-"} THEN NoMatch
    ELSE LET c == BulletText(s, q + 1, SkipWs(s, q + 1)) IN
      IF c = 0 THEN NoMatch
      ELSE [e |-> LineEnd(s, c), c1 |-> c, c2 |-> LineEnd(s, c), d |-> {q}]

\* (?:<li>[\s\S]*?<\/li>\s*)+ at position i: the position after the last
\* iteration that matches, 0 when not even one does.
RECURSIVE ListRunEnd(_, _)
ListRunEnd(s, i) ==
  IF ~HasAt(s, i, LiOpen) THEN 0
  ELSE LET j == FindFrom(s, i + Len(LiOpen), LiClose) IN
    IF j = 0 THEN 0
    ELSE LET k == SkipWs(s, j + Len(LiClose))
             more == ListRunEnd(s, k)
         IN IF more = 0 THEN k ELSE more

\* /((?:<li>[\s\S]*?<\/li>\s*)+)/ at position i.
ListMatch(s, i) ==
  LET e == ListRunEnd(s, i) IN
  IF e = 0 THEN NoMatch ELSE [e |-> e, c1 |-> i, c2 |-> e, d |-> {}]

\* Greedy .+ followed by the literal lit, the run having reached j: the run
\* gives back one character at a time down to lo.  0 when there is no match.
GreedyClose(s, lo, j, lit) ==
  LET hits == {k \in lo..j : HasAt(s, k, lit)} IN
  IF hits = {} THEN 0 ELSE Greatest(hits)

\* Faulty variant: the bold expression with a greedy (.+).
BoldMatchGreedy(s, i) ==
  IF ~HasAt(s, i, <<"*", "*">>) THEN NoMatch
  ELSE IF At(s, i + 2) = "" \/ IsLT(At(s, i + 2)) THEN NoMatch
  ELSE LET j == GreedyClose(s, i + 3, LineEnd(s, i + 2), <<"*", "*">>) IN
    IF j = 0 THEN NoMatch
    ELSE [e |-> j + 2, c1 |-> i + 2, c2 |-> j, d |-> {i, i + 1, j, j + 1}]

\* /\*\*(.+?)\*\*/ at position i.
BoldMatch(s, i) ==
  IF ~HasAt(s, i, <<"*", "*">>) THEN NoMatch
  ELSE IF At(s, i + 2) = "" \/ IsLT(At(s, i + 2)) THEN NoMatch
  ELSE LET j == LazyClose(s, i + 3, <<"*", "*">>) IN
    IF j = 0 THEN NoMatch
    ELSE [e |-> j + 2, c1 |-> i + 2, c2 |-> j, d |-> {i, i + 1, j, j + 1}]

\* Faulty variant: the italic expression without its (?!\s).
ItalicMatchNoLookahead(s, i) ==
  IF At(s, i) # "*" THEN NoMatch
  ELSE IF At(s, i + 1) = "" \/ IsLT(At(s, i + 1)) THEN NoMatch
  ELSE LET j == LazyClose(s, i + 2, <<"*">>) IN
    IF j = 0 THEN NoMatch
    ELSE [e |-> j + 1, c1 |-> i + 1, c2 |-> j, d |-> {i, j}]

\* Faulty variant: the italic expression closing at the end of the line when
\* no * closes it, /\*(?!\s)(.+?)(?:\*|$)/m.
ItalicMatchOpenEnded(s, i) ==
  IF At(s, i) # "*" THEN NoMatch
  ELSE IF IsWs(At(s, i + 1)) THEN NoMatch
  ELSE IF At(s, i + 1) = "" \/ IsLT(At(s, i + 1)) THEN NoMatch
  ELSE LET j == LazyClose(s, i + 2, <<"*">>) IN
    IF j = 0
    THEN [e |-> LineEnd(s, i + 1), c1 |-> i + 1, c2 |-> LineEnd(s, i + 1), d |-> {i}]
    ELSE [e |-> j + 1, c1 |-> i + 1, c2 |-> j, d |-> {i, j}]

\* /\*(?!\s)(.+?)\*/ at position i.
ItalicMatch(s, i) ==
  IF At(s, i) # "*" THEN NoMatch
  ELSE IF IsWs(At(s, i + 1)) THEN NoMatch
  ELSE IF At(s, i + 1) = "" \/ IsLT(At(s, i + 1)) THEN NoMatch
  ELSE LET j == LazyClose(s, i + 2, <<"*">>) IN
    IF j = 0 THEN NoMatch
    ELSE [e |-> j + 1, c1 |-> i + 1, c2 |-> j, d |-> {i, j}]

\* Faulty variant: the code expression with the whole match, backticks
\* included, where $1 belongs.
CodeMatchWhole(s, i) ==
  IF At(s, i) # Tick THEN NoMatch
  ELSE IF At(s, i + 1) = "" \/ IsLT(At(s, i + 1)) THEN NoMatch
  ELSE LET j == LazyClose(s, i + 2, <<Tick>>) IN
    IF j = 0 THEN NoMatch
    ELSE [e |-> j + 1, c1 |-> i, c2 |-> j + 1, d |-> {i, j}]

\* /`(.+?)`/ at position i.
CodeMatch(s, i) ==
  IF At(s, i) # Tick THEN NoMatch
  ELSE IF At(s, i + 1) = "" \/ IsLT(At(s, i + 1)) THEN NoMatch
  ELSE LET j == LazyClose(s, i + 2, <<Tick>>) IN
    IF j = 0 THEN NoMatch
    ELSE [e |-> j + 1, c1 |-> i + 1, c2 |-> j, d |-> {i, j}]

\* The regular expression of each of the five replace calls.
Match(pass, s, i) ==
  CASE pass = "bullet" -> BulletMatch(s, i)
    [] pass = "list" -> ListMatch(s, i)
    [] pass = "bold" -> BoldMatch(s, i)
    [] pass = "italic" -> ItalicMatch(s, i)
    [] pass = "code" -> CodeMatch(s, i)

\* The replacement strings '<li>$1</li>', '<ul>$1</ul>', ... : the tag put
\* before and after $1.
OpenTag(pass) ==
  CASE pass = "bullet" -> LiOpen
    [] pass = "list" -> UlOpen
    [] pass = "bold" -> StrongOpen
    [] pass = "italic" -> EmOpen
    [] pass = "code" -> CodeOpen

CloseTag(pass) ==
  CASE pass = "bullet" -> LiClose
    [] pass = "list" -> UlClose
    [] pass = "bold" -> StrongClose
    [] pass = "italic" -> EmClose
    [] pass = "code" -> CodeClose

\* ------------------------------------------------------------------------
\* String.prototype.replace with a global regular expression.
\*
\* The working text w carries, next to its characters w.s, two records the
\* program does not keep and the properties read:
\*   w.org[k]     the input position the character w.s[k] was copied from,
\*                0 for a character the renderer wrote;
\*   w.used[p]    the input positions of the marker characters pass p
\*                consumed.
\* ------------------------------------------------------------------------
Zeros(n) == [k \in 1..n |-> 0]

Origins(org, d) == {org[k] : k \in d}

\* What the expression of a pass does at each position of s.
MatchAt(pass, s) == [k \in 1..Len(s) |-> Match(pass, s, k)]

\* The matches are taken left to right from position i: the next match is
\* the one at the least position k >= i where the expression matches (at is
\* MatchAt of the pass), the text from i to k is copied, and the search goes
\* on where the match ended.  Without a match the rest of the text is copied.
RECURSIVE ReplaceFrom(_, _, _, _)
ReplaceFrom(pass, w, at, i) ==
  LET hits == {k \in i..Len(w.s) : at[k].e # 0} IN
  IF hits = {}
  THEN [s |-> Slice(w.s, i, Len(w.s) + 1),
        org |-> Slice(w.org, i, Len(w.s) + 1),
        d |-> {}]
  ELSE LET k == Least(hits)
           rest == ReplaceFrom(pass, w, at, at[k].e)
       IN [s |-> Slice(w.s, i, k) \o OpenTag(pass) \o Slice(w.s, at[k].c1, at[k].c2)
                   \o CloseTag(pass) \o rest.s,
           org |-> Slice(w.org, i, k) \o Zeros(Len(OpenTag(pass)))
                     \o Slice(w.org, at[k].c1, at[k].c2)
                     \o Zeros(Len(CloseTag(pass))) \o rest.org,
           d |-> Origins(w.org, at[k].d) \cup rest.d]

Replace(pass, w) ==
  LET r == ReplaceFrom(pass, w, MatchAt(pass, w.s), 1) IN
  [s |-> r.s, org |-> r.org, used |-> [w.used EXCEPT ![pass] = r.d]]

\* The input as a working text: every character is its own origin.
Input(text) ==
  [s |-> text,
   org |-> [k \in 1..Len(text) |-> k],
   used |-> [p \in {"bullet", "list", "bold", "italic", "code"} |-> {}]]

\* const withListItems = text.replace(/^\s*[\*-]\s+(.+)$/gm, '<li>$1</li>')
withListItems(text) == Replace("bullet", Input(text))

\* const withLists = withListItems.replace(/(...)+/g, '<ul>$1</ul>')
withLists(text) == Replace("list", withListItems(text))

\* return withLists.replace(bold).replace(italic).replace(code)
Rendered(text) ==
  Replace("code", Replace("italic", Replace("bold", withLists(text))))

renderMarkdown(text) == Rendered(text).s

\* ------------------------------------------------------------------------
\* One call of renderMarkdown on an input drawn from the bounded families.
\* ------------------------------------------------------------------------
\* Every concatenation of at most n of the pieces in toks.
RECURSIVE Strings(_, _)
Strings(toks, n) ==
  IF n = 0 THEN {<<>>}
  ELSE {<<>>} \cup {t \o r : t \in toks, r \in Strings(toks, n - 1)}

\* The pieces of the general inputs: the marker characters, white space, a
\* letter, and tag text as a summary may hold it.
BTag == <<"<", "b", ">">>
Pieces ==
  {<<"*">>, <<"-">>, <<Tick>>, <<" ">>, <<"\n">>, <<"a">>, LiOpen, LiClose, BTag}

General == Strings(Pieces, MaxLen)

\* Longer inputs over the characters the emphasis passes look at.
StarPieces == {<<"*">>, <<" ">>, <<"\n">>, <<"a">>}
StarInputs == Strings(StarPieces, MaxStarLen)

\* Texts without a marker character: x and t over the letter a, y over b.
XTexts == Strings({<<"a">>, <<" ">>, <<"\n">>, LiOpen, LiClose}, MaxTextLen) \ {<<>>}
YTexts == Strings({<<"b">>, <<" ">>, <<"\n">>, LiOpen, LiClose}, MaxTextLen) \ {<<>>}
XWords == Strings({<<"a">>, <<"\n">>, LiOpen, LiClose}, 1) \ {<<>>}
YWords == Strings({<<"b">>, <<"\n">>, LiOpen, LiClose}, 1) \ {<<>>}

\* **x** and *y*
BoldItalic(x, y) ==
  <<"*", "*">> \o x \o <<"*", "*", " ", "a", "n", "d", " ", "*">> \o y \o <<"*">>
BoldItalicInputs == {BoldItalic(x, y) : x \in XTexts, y \in YTexts}

\* **a** t **b**
TwoBold(a, t, b) ==
  <<"*", "*">> \o a \o <<"*", "*", " ">> \o t \o <<" ", "*", "*">> \o b \o <<"*", "*">>
TwoBoldInputs == {TwoBold(a, t, b) : a \in XWords, t \in XTexts, b \in YWords}

\* Runs of bullet lines, each a marker, a blank and a one-piece text.
ItemTexts == {<<"a">>, <<"b">>, LiOpen, LiClose}
BulletLine(mk, t) == <<mk, " ">> \o t
BulletLines == {BulletLine(mk, t) : mk \in {"-", "*"}, t \in ItemTexts}
RECURSIVE BulletRuns(_)
BulletRuns(n) ==
  IF n = 1 THEN BulletLines
  ELSE BulletLines \cup {l \o <<"\n">> \o r : l \in BulletLines, r \in BulletRuns(n - 1)}

Inputs ==
  General \cup StarInputs \cup BoldItalicInputs \cup TwoBoldInputs \cup BulletRuns(MaxItems)

\* The call of renderMarkdown: its argument, where it stands, what it
\* returned (out), and the two records of the working text (org, used).
\* ReposGrid: the active repository (useState) and the detail fetches that
\* openRepo started and that have not settled yet, oldest first.
\* RepoModal: what its last render put on the page.
\* The page: whether ReposGrid (and RepoModal with it) is mounted, the value
\* of document.body.style.overflow, and the useEffect of RepoModal.
\* Two records the program does not keep and the properties read: the latest
\* click on a card with the fate of its fetch (latest), and whether onClose
\* ran after the latest click (closed).
VARIABLES text, pc, out, org, used, activeRepo, pending, view,
          mounted, overflow, effect, latest, closed

vars ==
  <<text, pc, out, org, used, activeRepo, pending, view,
    mounted, overflow, effect, latest, closed>>

callVars == <<text, pc, out, org, used>>
pageVars == <<activeRepo, pending, view, mounted, overflow, effect, latest, closed>>

\* ------------------------------------------------------------------------
\* RepoModal and ReposGrid.
\* ------------------------------------------------------------------------
MaxPending == 3

\* No repository: the initial value of activeRepo, and what onClose sets.
Null == [null |-> TRUE]

\* What the backend answers to /api/repos/<name>.  readme_summary is an
\* optional key of Repo: a record without it is a repository without summary.
Details ==
  {[name |-> "thesis"],
   [name |-> "dotfiles", readme_summary |-> <<>>],
   [name |-> "portfolio", readme_summary |-> <<"-", " ", "a", "\n", "-", " ", "b">>],
   [name |-> "solver", readme_summary |-> <<"*", "*", "a", "*", "*", " ", "*", "b", "*">>]}

Names == {d.name : d \in Details}

Detail(n) == CHOOSE d \in Details : d.name = n

\* The text of the fallback paragraph.
NoReadme == "No README available for this repository."

\* const summary = repo?.readme_summary ?? ""
Summary(repo) ==
  IF repo # Null /\ "readme_summary" \in DOMAIN repo THEN repo.readme_summary ELSE <<>>

\* Faulty variant: the test of the key's presence where the test of the
\* string belongs.
HasSummaryDefined(repo) == repo # Null /\ "readme_summary" \in DOMAIN repo

\* {summary ? ... : ...}: a string is truthy unless it is empty.
HasSummary(repo) == Summary(repo) # <<>>

\* One render of RepoModal with the prop repo:
\*   open      the Dialog's open prop,
\*   body      what stands below the title: the article, the fallback
\*             paragraph, or nothing (no repo),
\*   html      the __html handed to dangerouslySetInnerHTML,
\*   notice    the text of the fallback paragraph,
\*   rendered  whether this render called renderMarkdown.
RepoModal(repo) ==
  IF repo = Null
  THEN [open |-> FALSE, body |-> "none", html |-> <<>>, notice |-> "", rendered |-> FALSE]
  ELSE IF HasSummary(repo)
  THEN [open |-> TRUE, body |-> "article", html |-> renderMarkdown(Summary(repo)),
        notice |-> "", rendered |-> TRUE]
  ELSE [open |-> TRUE, body |-> "fallback", html |-> <<>>, notice |-> NoReadme,
        rendered |-> FALSE]

\* s without its k-th element.
Without(s, k) == SubSeq(s, 1, k - 1) \o SubSeq(s, k + 1, Len(s))

\* useEffect(() => { if (repo) { lock; return unlock } }, [repo]).
\* The effect of RepoModal as React keeps it:
\*   cleanup   the last run returned the cleanup function,
\*   dirty     a render with a new repo is committed and its effects have
\*             not run yet,
\*   cleaned   the last run of the effects called a cleanup first.
\* Every repo handed to setActiveRepo is a new object or null after an
\* object, so every render committed here changes the dependency [repo].
FreshEffect == [cleanup |-> FALSE, dirty |-> TRUE, cleaned |-> FALSE]

\* Faulty variant: the effect without the cleanup function it returns.
RunEffectNoCleanup(repo, fx, ov) ==
  [overflow |-> IF repo # Null THEN "hidden" ELSE ov,
   effect |-> [cleanup |-> FALSE, dirty |-> FALSE, cleaned |-> FALSE]]

\* The effects of the committed render run: the cleanup of the previous run,
\* if it returned one, sets overflow to "", then the effect body sets it to
\* "hidden" for a repo and returns the cleanup.
RunEffect(repo, fx, ov) ==
  [overflow |-> IF repo # Null THEN "hidden" ELSE IF fx.cleanup THEN "" ELSE ov,
   effect |-> [cleanup |-> repo # Null, dirty |-> FALSE, cleaned |-> fx.cleanup]]

\* React runs the effects that are still waiting before it renders again.
Flushed(repo, fx, ov) ==
  IF fx.dirty THEN RunEffect(repo, fx, ov) ELSE [overflow |-> ov, effect |-> fx]

\* No click yet.
NoClick == [name |-> "none", fate |-> "none"]

\* The fetch of the latest click is the last one in flight while its fate is
\* "pending": what the settling of the k-th fetch makes of latest.
Settled(k, fate) ==
  IF k = Len(pending) /\ latest.fate = "pending"
  THEN [latest EXCEPT !.fate = fate]
  ELSE latest

PageInit ==
  /\ activeRepo = Null
  /\ pending = <<>>
  /\ view = RepoModal(Null)
  /\ mounted = TRUE
  /\ overflow = ""
  /\ effect = FreshEffect
  /\ latest = NoClick
  /\ closed = FALSE

\* A click on the card of repository n: openRepo(n) starts its fetch.
ClickCard(n) ==
  /\ mounted
  /\ Len(pending) < MaxPending
  /\ pending' = Append(pending, n)
  /\ latest' = [name |-> n, fate |-> "pending"]
  /\ closed' = FALSE
  /\ UNCHANGED <<activeRepo, view, mounted, overflow, effect>>
  /\ UNCHANGED callVars

\* The k-th fetch in flight answers: openRepo goes on after its await,
\* setActiveRepo(detail), and ReposGrid renders RepoModal again.
FetchResolve(k) ==
  /\ k \in 1..Len(pending)
  /\ activeRepo' = Detail(pending[k])
  /\ pending' = Without(pending, k)
  /\ view' = RepoModal(activeRepo')
  /\ overflow' = Flushed(activeRepo, effect, overflow).overflow
  /\ effect' = [Flushed(activeRepo, effect, overflow).effect EXCEPT !.dirty = TRUE]
  /\ latest' = Settled(k, "resolved")
  /\ UNCHANGED <<mounted, closed>>
  /\ UNCHANGED callVars

\* The k-th fetch in flight fails (no network, no JSON): the promise of
\* openRepo rejects before setActiveRepo.
FetchReject(k) ==
  /\ k \in 1..Len(pending)
  /\ pending' = Without(pending, k)
  /\ latest' = Settled(k, "rejected")
  /\ UNCHANGED <<activeRepo, view, mounted, overflow, effect, closed>>
  /\ UNCHANGED callVars

\* The open Dialog asks to close: onOpenChange(false) calls onClose,
\* setActiveRepo(null), and ReposGrid renders RepoModal again.
CloseModal ==
  /\ view.open
  /\ activeRepo' = Null
  /\ view' = RepoModal(activeRepo')
  /\ overflow' = Flushed(activeRepo, effect, overflow).overflow
  /\ effect' = [Flushed(activeRepo, effect, overflow).effect EXCEPT !.dirty = TRUE]
  /\ closed' = TRUE
  /\ UNCHANGED <<pending, mounted, latest>>
  /\ UNCHANGED callVars

\* The effects of the last committed render run.
RunEffects ==
  /\ mounted
  /\ effect.dirty
  /\ overflow' = RunEffect(activeRepo, effect, overflow).overflow
  /\ effect' = RunEffect(activeRepo, effect, overflow).effect
  /\ UNCHANGED <<activeRepo, pending, view, mounted, latest, closed>>
  /\ UNCHANGED callVars

\* The page goes away: the effects still waiting run, then the cleanup of
\* the last run; the state of ReposGrid is dropped, and the fetches in flight
\* are left with a setter of a component that is gone.
Unmount ==
  /\ mounted
  /\ mounted' = FALSE
  /\ overflow' = RunEffect(Null, Flushed(activeRepo, effect, overflow).effect,
                           Flushed(activeRepo, effect, overflow).overflow).overflow
  /\ effect' = [cleanup |-> FALSE, dirty |-> FALSE,
                cleaned |-> Flushed(activeRepo, effect, overflow).effect.cleanup]
  /\ activeRepo' = Null
  /\ pending' = <<>>
  /\ view' = RepoModal(Null)
  /\ latest' = NoClick
  /\ closed' = FALSE
  /\ UNCHANGED callVars

\* The page comes back: useState(null), and the first render of RepoModal.
Mount ==
  /\ ~mounted
  /\ mounted' = TRUE
  /\ effect' = FreshEffect
  /\ UNCHANGED <<activeRepo, pending, view, overflow, latest, closed>>
  /\ UNCHANGED callVars

\* ------------------------------------------------------------------------
\* The two specifications.
\* ------------------------------------------------------------------------
\* Faulty variant: the capture read off a match that may be null,
\* text.match(bold)[1].
ThrowsOnNoMatch(t) == \A i \in 1..Len(t) : BoldMatch(t, i).e = 0

\* renderMarkdown(text) has no throw statement and calls nothing but
\* String.prototype.replace with a string replacement, which returns a
\* string for every string it is called on.
Throws(t) == FALSE

Init ==
  /\ text \in Inputs
  /\ pc = "ready"
  /\ out = <<>>
  /\ org = <<>>
  /\ used = Input(<<>>).used
  /\ PageInit

Render ==
  /\ pc = "ready"
  /\ IF Throws(text)
     THEN pc' = "threw" /\ UNCHANGED <<out, org, used>>
     ELSE /\ pc' = "done"
          /\ out' = renderMarkdown(text)
          /\ org' = Rendered(text).org
          /\ used' = Rendered(text).used
  /\ UNCHANGED text
  /\ UNCHANGED pageVars

Next == Render

\* One call of renderMarkdown on each input of the families.
Spec == Init /\ [][Next]_vars

ModalInit ==
  /\ text = <<>>
  /\ pc = "idle"
  /\ out = <<>>
  /\ org = <<>>
  /\ used = Input(<<>>).used
  /\ PageInit

ModalNext ==
  \/ \E n \in Names : ClickCard(n)
  \/ \E k \in 1..MaxPending : FetchResolve(k)
  \/ \E k \in 1..MaxPending : FetchReject(k)
  \/ CloseModal
  \/ RunEffects
  \/ Unmount
  \/ Mount

\* The page: clicks on cards, answers of the backend, closing the modal.
SpecModal == ModalInit /\ [][ModalNext]_vars

\* ------------------------------------------------------------------------
\* Vocabulary of the properties.
\* ------------------------------------------------------------------------
\* How often the literal lit stands in s.
Count(lit, s) == Cardinality({i \in 1..Len(s) : HasAt(s, i, lit)})

StarsOf(s) == {i \in 1..Len(s) : s[i] = "*"}

\* Every character of the line of p that stands before p is white space.
FirstOnLine(s, p) ==
  \A k \in 1..(p - 1) : (\A m \in k..(p - 1) : ~IsLT(s[m])) => IsWs(s[k])

\* The character at p is the bullet marker of its line: the first character
\* of the line that is no white space, a - or a *, followed by white space.
IsBulletMarker(s, p) ==
  /\ At(s, p) \in {"*", "-"}
  /\ FirstOnLine(s, p)
  /\ IsWs(At(s, p + 1))

\* No recognized markdown marker: no *, no backtick, no bullet-marker line
\* start.
MarkerFree(s) ==
  \A p \in 1..Len(s) : s[p] # "*" /\ s[p] # Tick /\ ~IsBulletMarker(s, p)

SingleLine(s) == \A p \in 1..Len(s) : ~IsLT(s[p])

\* A literal <li> with a literal </li> somewhere after it.
HasLiPair(s) ==
  \E i \in 1..Len(s) : HasAt(s, i, LiOpen) /\ FindFrom(s, i + Len(LiOpen), LiClose) # 0

\* The characters a rendered fragment is made of.
Chars ==
  {"*", "-", Tick, " ", "\n", "<", ">", "/",
   "a", "b", "c", "d", "e", "g", "i", "l", "m", "n", "o", "r", "s", "t", "u"}

\* C1: renderMarkdown is total: on every input string, the empty one, the
\* ones with unbalanced * or backtick, the empty bullet line and ****
\* included, the call returns, and what it returns is a string.
C1_Total ==
  /\ pc # "threw"
  /\ pc = "done" => out \in Seq(Chars)

C1_Witness ==
  /\ pc = "done"
  /\ text = <<"*", "*", "*", "*">>
  /\ out = EmOpen \o <<"*">> \o EmClose \o <<"*">>

Kept(o, g) ==
  LET copied == {k \in 1..Len(o) : g[k] # 0}
      Nth(j) == CHOOSE k \in copied : Cardinality({m \in copied : m <= k}) = j
  IN [j \in 1..Cardinality(copied) |-> o[Nth(j)]]

C3_OnlyRendererTags ==
  pc = "done" => \A k \in 1..Len(out) : out[k] \in {"<", ">"} => org[k] = 0

\* ------------------------------------------------------------------------
\* C4: runs of bullet lines.
\* ------------------------------------------------------------------------
\* The lines of s.
RECURSIVE Lines(_)
Lines(s) ==
  LET e == LineEnd(s, 1) IN
  IF e > Len(s) THEN <<s>>
  ELSE <<Slice(s, 1, e)>> \o Lines(Slice(s, e + 1, Len(s) + 1))

\* A line `- text` or `* text`, the text not empty and not starting with
\* white space.
IsBulletLine(l) ==
  /\ Len(l) >= 3
  /\ l[1] \in {"-", "*"}
  /\ l[2] = " "
  /\ ~IsWs(l[3])

IsBulletRun(s) == \A k \in 1..Len(Lines(s)) : IsBulletLine(Lines(s)[k])

\* <li>text</li> for each line, the items separated by the line breaks.
RECURSIVE Items(_)
Items(ls) ==
  IF Len(ls) = 0 THEN <<>>
  ELSE LiOpen \o Slice(Head(ls), 3, Len(Head(ls)) + 1) \o LiClose
         \o (IF Len(ls) = 1 THEN <<>> ELSE <<"\n">>) \o Items(Tail(ls))

\* C4: n consecutive bullet lines of marker-free text give one <ul> around n
\* <li>, one per line and in the order of the lines.
C4_OneListPerRun ==
  (pc = "done" /\ IsBulletRun(text)
     /\ \A k \in 1..Len(Lines(text)) : MarkerFree(Tail(Tail(Lines(text)[k]))))
  => /\ out = UlOpen \o Items(Lines(text)) \o UlClose
     /\ Count(UlOpen, out) = 1
     /\ Count(UlClose, out) = 1
     /\ Count(LiOpen, out) = Len(Lines(text))
     /\ Count(LiClose, out) = Len(Lines(text))

\* ------------------------------------------------------------------------
\* C5: **x** and *y*, and **a** t **b**.
\* ------------------------------------------------------------------------
BoldMid == <<"*", "*", " ", "a", "n", "d", " ", "*">>

\* The input reads **x** and *y* with x and y free of *: where x ends and
\* where y starts.
BIxEnd(s) == FindFrom(s, 3, <<"*">>)
BIyStart(s) == BIxEnd(s) + Len(BoldMid)
IsBoldItalicForm(s) ==
  /\ HasAt(s, 1, <<"*", "*">>)
  /\ BIxEnd(s) > 3
  /\ HasAt(s, BIxEnd(s), BoldMid)
  /\ FindFrom(s, BIyStart(s), <<"*">>) = Len(s)
  /\ Len(s) > BIyStart(s)
BIx(s) == Slice(s, 3, BIxEnd(s))
BIy(s) == Slice(s, BIyStart(s), Len(s))

\* The precondition of C5 on x and y.
IsSpanText(t) == Len(t) > 0 /\ MarkerFree(t) /\ ~IsWs(t[1])

\* The input reads **a** t **b** with a, t and b free of *.
TBaEnd(s) == FindFrom(s, 3, <<"*">>)
TBbOpen(s) == FindFrom(s, TBaEnd(s) + 3, <<"*">>)
TBbEnd(s) == FindFrom(s, TBbOpen(s) + 2, <<"*">>)
IsTwoBoldForm(s) ==
  /\ HasAt(s, 1, <<"*", "*">>)
  /\ TBaEnd(s) > 3
  /\ HasAt(s, TBaEnd(s), <<"*", "*", " ">>)
  /\ TBbOpen(s) > TBaEnd(s) + 4
  /\ HasAt(s, TBbOpen(s) - 1, <<" ", "*", "*">>)
  /\ TBbEnd(s) > TBbOpen(s) + 2
  /\ HasAt(s, TBbEnd(s), <<"*", "*">>)
  /\ TBbEnd(s) + 1 = Len(s)
TBa(s) == Slice(s, 3, TBaEnd(s))
TBt(s) == Slice(s, TBaEnd(s) + 3, TBbOpen(s) - 1)
TBb(s) == Slice(s, TBbOpen(s) + 2, TBbEnd(s))

\* One <strong> span, then one <em> span, and nothing else of the two kinds.
OneStrongThenOneEm(s) ==
  /\ Count(StrongOpen, s) = 1 /\ Count(StrongClose, s) = 1
  /\ Count(EmOpen, s) = 1 /\ Count(EmClose, s) = 1
  /\ HasAt(s, 1, StrongOpen)
  /\ FindFrom(s, 1, StrongClose) < FindFrom(s, 1, EmOpen)
  /\ FindFrom(s, 1, EmOpen) < FindFrom(s, 1, EmClose)
  /\ HasAt(s, Len(s) - Len(EmClose) + 1, EmClose)

\* C5 as stated: x is wrapped in the one <strong> span, y in the one <em>
\* span after it; two bolds on a line give two <strong> spans, each closed at
\* the nearest **.
C5_BoldAndItalic ==
  /\ (pc = "done" /\ IsBoldItalicForm(text)
        /\ IsSpanText(BIx(text)) /\ IsSpanText(BIy(text)))
     => out = StrongOpen \o BIx(text) \o StrongClose \o <<" ", "a", "n", "d", " ">>
                \o EmOpen \o BIy(text) \o EmClose
  /\ (pc = "done" /\ IsTwoBoldForm(text)
        /\ IsSpanText(TBa(text)) /\ MarkerFree(TBt(text)) /\ IsSpanText(TBb(text)))
     => out = StrongOpen \o TBa(text) \o StrongClose \o <<" ">> \o TBt(text) \o <<" ">>
                \o StrongOpen \o TBb(text) \o StrongClose

\* C5, amended: the same for x, y, a and b without a line break; the spans
\* hold exactly x and y (a and b) when the input has no literal <li> ... </li>
\* pair, which the list pass wraps in <ul> wherever it stands.
C5_BoldAndItalicOnOneLine ==
  /\ (pc = "done" /\ IsBoldItalicForm(text)
        /\ IsSpanText(BIx(text)) /\ IsSpanText(BIy(text))
        /\ SingleLine(BIx(text)) /\ SingleLine(BIy(text)))
     => /\ OneStrongThenOneEm(out)
        /\ ~HasLiPair(text)
           => out = StrongOpen \o BIx(text) \o StrongClose \o <<" ", "a", "n", "d", " ">>
                      \o EmOpen \o BIy(text) \o EmClose
  /\ (pc = "done" /\ IsTwoBoldForm(text)
        /\ IsSpanText(TBa(text)) /\ MarkerFree(TBt(text)) /\ IsSpanText(TBb(text))
        /\ SingleLine(TBa(text)) /\ SingleLine(TBb(text)))
     => /\ Count(StrongOpen, out) = 2 /\ Count(StrongClose, out) = 2
        /\ Count(EmOpen, out) = 0
        /\ ~HasLiPair(text)
           => out = StrongOpen \o TBa(text) \o StrongClose \o <<" ">> \o TBt(text)
                      \o <<" ">> \o StrongOpen \o TBb(text) \o StrongClose

C5_Witness ==
  /\ pc = "done"
  /\ IsTwoBoldForm(text)
  /\ TBa(text) = <<"a">> /\ TBb(text) = <<"b">> /\ SingleLine(TBt(text))
  /\ Count(StrongOpen, out) = 2

\* ------------------------------------------------------------------------
\* C6: * without a partner.
\* ------------------------------------------------------------------------
\* The * of the input that are no bullet marker.
FreeStars(s) == {p \in StarsOf(s) : ~IsBulletMarker(s, p)}

\* The input character p stands in the output as it stood in the input.
Literal(p) == \E k \in 1..Len(out) : org[k] = p /\ out[k] = text[p]

IsCodeForm(s) == Len(s) >= 3 /\ s[1] = Tick /\ s[Len(s)] = Tick
CodeText(s) == Slice(s, 2, Len(s))

\* The precondition of C7 on t: marker-free text, not white space alone.
IsCodeText(t) == MarkerFree(t) /\ \E p \in 1..Len(t) : ~IsWs(t[p])

\* C7 as stated: the output is one <code> span around t.
C7_InlineCode ==
  (pc = "done" /\ IsCodeForm(text) /\ IsCodeText(CodeText(text)))
  => out = CodeOpen \o CodeText(text) \o CodeClose

\* C7, amended: the same for t without a line break; the span holds exactly t
\* when t has no literal <li> ... </li> pair.
C7_InlineCodeOnOneLine ==
  (pc = "done" /\ IsCodeForm(text) /\ IsCodeText(CodeText(text))
     /\ SingleLine(CodeText(text)))
  => /\ Count(CodeOpen, out) = 1 /\ Count(CodeClose, out) = 1
     /\ HasAt(out, 1, CodeOpen)
     /\ HasAt(out, Len(out) - Len(CodeClose) + 1, CodeClose)
     /\ ~HasLiPair(text) => out = CodeOpen \o CodeText(text) \o CodeClose

C7_Witness ==
  /\ pc = "done"
  /\ text = <<Tick, "a", " ", Tick>>
  /\ out = CodeOpen \o <<"a", " ">> \o CodeClose

\* ------------------------------------------------------------------------
\* C9: bullets line by line.
\* ------------------------------------------------------------------------
\* The bullet pass run on each line by itself, the line breaks kept.
RECURSIVE LineByLine(_)
LineByLine(ls) ==
  IF Len(ls) = 0 THEN <<>>
  ELSE withListItems(Head(ls)).s
         \o (IF Len(ls) = 1 THEN <<>> ELSE <<"\n">>) \o LineByLine(Tail(ls))

\* C9: the bullet pass works line by line: a list item comes from one line
\* and holds that line's text, and every other line and every line break
\* stays as it was.
C9_BulletsLineByLine ==
  pc = "done" => withListItems(text).s = LineByLine(Lines(text))

\* ------------------------------------------------------------------------
\* C10: the order of the passes.
\* ------------------------------------------------------------------------
\* C10: no * that is the bullet marker of its line, and no * of a matched
\* ** ... ** pair, opens or closes an <em> span.
C10_MarkersNotItalic ==
  pc = "done" =>
    \A p \in used.italic :
      /\ ~IsBulletMarker(text, p)
      /\ p \notin used.bold
      /\ p \notin used.bullet

C10_Witness ==
  /\ pc = "done"
  /\ text = <<"*", "\n", "*", " ", "*", "a", "*">>
  /\ used.bullet = {1}
  /\ used.italic = {5, 7}
  /\ IsBulletMarker(text, 3) /\ Literal(3)

\* ------------------------------------------------------------------------
\* C8: the fallback notice.
\* ------------------------------------------------------------------------
\* C8: an open modal whose repo has no summary, or an empty one, shows the
\* fallback notice and has not called renderMarkdown; one whose repo has a
\* summary shows the rendered fragment and no fallback notice.
C8_FallbackWithoutSummary ==
  activeRepo # Null =>
    /\ view.open
    /\ IF "readme_summary" \in DOMAIN activeRepo /\ Len(activeRepo.readme_summary) > 0
       THEN /\ view.body = "article"
            /\ view.rendered
            /\ view.html = renderMarkdown(activeRepo.readme_summary)
            /\ view.notice # NoReadme
       ELSE /\ view.body = "fallback"
            /\ ~view.rendered
            /\ view.notice = NoReadme

C8_Witness ==
  /\ activeRepo # Null
  /\ "readme_summary" \in DOMAIN activeRepo
  /\ activeRepo.readme_summary = <<>>
  /\ view.body = "fallback"

\* ------------------------------------------------------------------------
\* C11, C12: the detail fetches of openRepo.
\* ------------------------------------------------------------------------
\* C11: latest click wins: once no fetch is in flight and the fetch of the
\* latest click has answered, the active repo is the detail of the latest
\* click, whatever the order of the answers (onClose not having run since).
C11_LatestClickWins ==
  (mounted /\ pending = <<>> /\ latest.fate = "resolved" /\ ~closed)
  => activeRepo = Detail(latest.name)

\* C12: close is stable: after onClose the active repo stays null until the
\* next click on a card.
C12_CloseIsStable == closed => activeRepo = Null

\* ------------------------------------------------------------------------
\* C13: the scroll lock.
\* ------------------------------------------------------------------------
\* C13: once the effects and their cleanups have run, overflow is "hidden"
\* exactly when RepoModal is mounted with a repo, and "" otherwise.
C13_ScrollLock ==
  ~(mounted /\ effect.dirty)
  => /\ overflow \in {"hidden", ""}
     /\ overflow = "hidden" <=> (mounted /\ activeRepo # Null)

\* A switch from one repo to another: the effects have run, the cleanup of
\* the previous repo first, and the lock is set.
C13_Witness ==
  /\ mounted
  /\ ~effect.dirty
  /\ effect.cleaned
  /\ activeRepo # Null
  /\ overflow = "hidden"

\* ------------------------------------------------------------------------
\* C14: well-formed output.
\* ------------------------------------------------------------------------
NoAngle(s) == \A p \in 1..Len(s) : s[p] \notin {"<", ">"}

\* The tags of s in their order, each from its < to its >.
Tags(s) ==
  LET opens == {i \in 1..Len(s) : s[i] = "<"}
      Nth(j) == CHOOSE i \in opens : Cardinality({m \in opens : m <= i}) = j
  IN [j \in 1..Cardinality(opens) |->
        Slice(s, Nth(j), FindFrom(s, Nth(j), <<">">>) + 1)]

IsClosingTag(tag) == tag[2] = "/"
TagName(tag) ==
  IF IsClosingTag(tag) THEN Slice(tag, 3, Len(tag)) ELSE Slice(tag, 2, Len(tag))

\* The tags nest: every closing tag closes the element opened last and not
\* closed yet (open holds the names of those, the innermost first), and no
\* element stays open.
RECURSIVE Nests(_, _)
Nests(tags, open) ==
  IF Len(tags) = 0 THEN Len(open) = 0
  ELSE IF ~IsClosingTag(Head(tags))
    THEN Nests(Tail(tags), <<TagName(Head(tags))>> \o open)
    ELSE /\ Len(open) > 0
         /\ Head(open) = TagName(Head(tags))
         /\ Nests(Tail(tags), Tail(open))

\* C14: for an input without angle brackets the tags of the output are
\* balanced and properly nested: every opening tag has its closing tag and no
\* two spans overlap in part.
C14_WellFormed == (pc = "done" /\ NoAngle(text)) => Nests(Tags(out), <<>>)

====
